---- MODULE Spec2Model ----
(***************************************************************************)
(* Model of the resume matcher: src/ml-api/matcher.py (model loading, the  *)
(* matching orchestrator get_top_matches, the job source adapter           *)
(* fetch_jobs_from_api and the result formatter format_job), and of the    *)
(* asynchronous job store of src/api/app.py (job_status, its background    *)
(* tasks and cleanup_old_jobs).                                            *)
(*                                                                         *)
(* Python values are modelled as tagged records: a str is                  *)
(* [tag |-> "str", s |-> <text>], None is PyNone, and a dictionary key     *)
(* that is missing is Absent.  Text is a TLA+ string, handled with Len,    *)
(* \o, SubSeq, Head and Tail.                                              *)
(***************************************************************************)
EXTENDS Integers, Sequences, FiniteSets, TLC

(***************************************************************************)
(* Bounds of the model.                                                    *)
(***************************************************************************)
MaxJobs    == 2      \* postings the job source returns in one response
MaxTopK    == 3      \* largest top_k a caller passes
MaxThreads == 3      \* threads that call load_model / read `model`
MaxCalls   == 2      \* calls of load_model per thread
SimScale   == 30000  \* resolution of a similarity: sim / SimScale in [-1, 1]
MaxJobIds  == 3      \* jobs submitted to /match-jobs-async/
MaxTime    == 3      \* hours the clock of the API process runs

(***************************************************************************)
(* Program constants.                                                      *)
(***************************************************************************)
RetryTotal  == 3     \* Retry(total=3)
NumResults  == 10    \* fetch_jobs_from_api(query, num_results=10)
DescLimit   == 300   \* desc[:300], len(desc) > 300
CleanupHours == 1    \* timedelta(hours=1) of cleanup_old_jobs

Min(a, b) == IF a <= b THEN a ELSE b
Max(a, b) == IF a >= b THEN a ELSE b

(***************************************************************************)
(* Python values.                                                          *)
(***************************************************************************)
PyNone == [tag |-> "None", s |-> ""]
Absent == [tag |-> "absent", s |-> ""]
Str(t) == [tag |-> "str", s |-> t]

\* dict.get(key, default): the default is used only when the key is missing;
\* a key that is present with the value None yields None.
Get(job, key, default) == IF job[key] = Absent THEN default ELSE job[key]

\* Truth value of a str or None, as the `or` of line 66 tests it.
Truthy(v) == v.tag = "str" /\ v.s # ""

\* Text an f-string substitutes for a value: str(None) is "None".
FStr(v) == IF v.tag = "str" THEN v.s ELSE "None"

\* A slice that also takes the element at index k (seq[:k + 1]).
SliceTo_inclusive(seq, k) == SubSeq(seq, 1, Min(k + 1, Len(seq)))

\* seq[:k] of Python, for a non-negative or negative k.
SliceTo(seq, k) ==
    IF k >= 0 THEN SubSeq(seq, 1, Min(k, Len(seq)))
              ELSE SubSeq(seq, 1, Max(Len(seq) + k, 0))

\* str.strip(chars): drops leading and trailing characters that are in chars.
RECURSIVE LStrip(_, _)
LStrip(t, chars) ==
    IF t # "" /\ Head(t) \in chars THEN LStrip(Tail(t), chars) ELSE t

RECURSIVE RStrip(_, _)
RStrip(t, chars) ==
    IF t # "" /\ SubSeq(t, Len(t), Len(t)) \in chars
    THEN RStrip(SubSeq(t, 1, Len(t) - 1), chars)
    ELSE t

Strip(t, chars) == RStrip(LStrip(t, chars), chars)

\* a / b rounded to the nearest integer, ties to the even one (b > 0).
RoundDiv(a, b) ==
    LET q == a \div b
        r == a % b
    IN  IF 2 * r < b THEN q
        ELSE IF 2 * r > b THEN q + 1
        ELSE IF q % 2 = 0 THEN q ELSE q + 1

\* Similarities the ranker is given: cosine similarity sim / SimScale.
SimValues == {-SimScale, -2, 1, SimScale}

\* round(float(similarity_score) * 100, 2), in hundredths of a point:
\* a similarity of sim / SimScale gives the score Score(sim) / 100.
\* (Score_shifted: the similarity shifted by one before it is scaled.)
Score_shifted(sim) == RoundDiv((sim + SimScale) * 10000, SimScale)
Score(sim) == RoundDiv(sim * 10000, SimScale)

(***************************************************************************)
(* Job records of the job source (the "data" array of the response).       *)
(***************************************************************************)
RECURSIVE Text(_)
Text(n) ==
    IF n = 0 THEN ""
    ELSE IF n % 2 = 0 THEN LET half == Text(n \div 2) IN half \o half
    ELSE "x" \o Text(n - 1)

TitleVals   == {Absent, PyNone, Str("Backend Engineer")}
CompanyVals == {Absent, PyNone, Str("Acme")}
CityVals    == {Absent, PyNone, Str("Lagos")}
CountryVals == {Absent, PyNone, Str("NG")}
DescVals    == {Absent, PyNone, Str(""), Str("Python backend role"),
                Str(Text(DescLimit)), Str(Text(DescLimit + 1)),
                Str("a" \o Text(DescLimit - 2) \o "bc"),
                Str("a" \o Text(DescLimit - 2) \o "b" \o Text(200))}
LinkVals    == {Absent, PyNone, Str(""), Str("https://jobs.example/1")}
PostedVals  == {Absent, PyNone, Str("2024-05-01T00:00:00.000Z")}

\* The empty dictionary: every key is missing.
EmptyJob ==
    [job_title |-> Absent, employer_name |-> Absent, job_city |-> Absent,
     job_country |-> Absent, job_description |-> Absent,
     job_apply_link |-> Absent, job_posted_at_datetime_utc |-> Absent]

AllJobs ==
    [job_title : TitleVals, employer_name : CompanyVals,
     job_city : CityVals, job_country : CountryVals,
     job_description : DescVals, job_apply_link : LinkVals,
     job_posted_at_datetime_utc : PostedVals]

(***************************************************************************)
(* format_job (matcher.py 57-68).  The result is [exc, val]: exc is "none" *)
(* and val the returned dictionary, or exc names the exception raised.     *)
(***************************************************************************)
NoResult ==
    [title |-> PyNone, company |-> PyNone, location |-> PyNone,
     description |-> PyNone, score |-> 0, apply_link |-> PyNone,
     posted_at |-> PyNone]

format_job(job, similarity_score) ==
    LET desc == Get(job, "job_description", Str(""))
    IN  IF desc.tag # "str"
        THEN \* None[:300] raises TypeError: 'NoneType' is not subscriptable
             [exc |-> "TypeError", val |-> NoResult]
        ELSE [exc |-> "none",
              val |->
                [title       |-> Get(job, "job_title", Str("No title")),
                 company     |-> Get(job, "employer_name", Str("Unknown")),
                 location    |->
                    Str(Strip(FStr(Get(job, "job_city", Str(""))) \o ", "
                              \o FStr(Get(job, "job_country", Str(""))),
                              {",", " "})),
                 description |->
                    Str(SliceTo(desc.s, DescLimit)
                        \o (IF Len(desc.s) > DescLimit THEN "..." ELSE "")),
                 score       |-> Score(similarity_score),
                 apply_link  |->
                    IF Truthy(Get(job, "job_apply_link", PyNone))
                    THEN Get(job, "job_apply_link", PyNone)
                    ELSE Str("No link"),
                 posted_at   |->
                    Get(job, "job_posted_at_datetime_utc", Str("Unknown"))]]

(***************************************************************************)
(* State.                                                                  *)
(***************************************************************************)
VARIABLES
    proc,           \* import of matcher.py: "start", "L17", "ready", "import_failed"
    cache,          \* the lru_cache entry of load_model: 0 (empty) or an instance
    constructed,    \* SentenceTransformer(...) constructions so far
    model,          \* the module global `model`: 0 (unbound) or an instance
    lpc,            \* caller -> position in load_model
    lret,           \* caller -> instance load_model returned to it (0: none yet)
    lseen,          \* thread -> instance it read from the global `model`
    lcalls,         \* caller -> calls of load_model it has made
    requestsBound,  \* whether the global name `requests` resolves in matcher.py
    pc,             \* position in get_top_matches / fetch_jobs_from_api
    top_k,          \* argument of get_top_matches
    encodeCalls,    \* calls of model.encode made by this get_top_matches call
    fetchCalled,    \* fetch_jobs_from_api has been called
    attempts,       \* requests sent to the job source by this fetch
    respLog,        \* the responses to those requests, in order
    fetchOutcome,   \* "none", "returned" or "raised"
    jobs,           \* the list fetch_jobs_from_api returned
    sims,           \* similarities[i] of jobs[i]
    topIdx,         \* top_indices
    exc,            \* exception that reached line 53, or "none"
    outcome,        \* of get_top_matches: "none", "returned" or "raised"
    result,         \* the list get_top_matches returned
    fmtJob,         \* argument of a direct format_job call
    fmtSim,         \* its similarity_score
    fmtOut,         \* its result
    job_status,     \* app.py: job id -> [status, created_at], the entries held
    now,            \* datetime.now(), in whole hours
    mlUrlSet,       \* whether RENDER_ML_URL is set in the environment
    tpc,            \* job id -> position of its background task
    trail,          \* job id -> the status values written to its entry
    lastPoll        \* what the last /job-status/ request was answered

loadVars == <<proc, cache, constructed, model, lpc, lret, lseen, lcalls>>
orchVars == <<requestsBound, pc, top_k, encodeCalls, fetchCalled, attempts,
              respLog, fetchOutcome, jobs, sims, topIdx, exc, outcome, result>>
fmtVars  == <<fmtJob, fmtSim, fmtOut>>
apiVars  == <<job_status, now, mlUrlSet, tpc, trail, lastPoll>>
vars     == <<loadVars, orchVars, fmtVars, apiVars>>

Importer == 0
Threads  == 1..MaxThreads
Callers  == {Importer} \cup Threads

NotRun == [exc |-> "notrun", val |-> NoResult]

InitLoad ==
    /\ proc = "start"
    /\ cache = 0
    /\ constructed = 0
    /\ model = 0
    /\ lpc = [c \in Callers |-> "idle"]
    /\ lret = [c \in Callers |-> 0]
    /\ lseen = [c \in Threads |-> 0]
    /\ lcalls = [c \in Callers |-> 0]

InitOrch ==
    /\ pc = "idle"
    /\ top_k = 0
    /\ encodeCalls = 0
    /\ fetchCalled = FALSE
    /\ attempts = 0
    /\ respLog = <<>>
    /\ fetchOutcome = "none"
    /\ jobs = <<>>
    /\ sims = <<>>
    /\ topIdx = <<>>
    /\ exc = "none"
    /\ outcome = "none"
    /\ result = <<>>

InitFmt ==
    /\ fmtJob = EmptyJob
    /\ fmtSim = 0
    /\ fmtOut = NotRun

JobIds == 1..MaxJobIds

InitApi ==
    /\ job_status = <<>>
    /\ now = 0
    /\ mlUrlSet = TRUE
    /\ tpc = [j \in JobIds |-> "unborn"]
    /\ trail = [j \in JobIds |-> <<>>]
    /\ lastPoll = "none"

(***************************************************************************)
(* Import of matcher.py and load_model (matcher.py 6-17).                  *)
(*                                                                         *)
(* functools.lru_cache looks the key up, and on a miss calls the wrapped   *)
(* function WITHOUT holding a lock, then stores the result unless another  *)
(* call stored one meanwhile; the caller gets the result of its own call.  *)
(***************************************************************************)

\* The module body skipping the eager load of line 17.
ExecModule_lazy ==
    /\ proc = "start"
    /\ proc' = "ready"
    /\ UNCHANGED <<cache, constructed, model, lpc, lret, lseen, lcalls>>
    /\ UNCHANGED <<orchVars, fmtVars, apiVars>>

\* Lines 1-16: the imports and the definition of load_model; line 17 is next.
ExecModule ==
    /\ proc = "start"
    /\ proc' = "L17"
    /\ UNCHANGED <<cache, constructed, model, lpc, lret, lseen, lcalls>>
    /\ UNCHANGED <<orchVars, fmtVars, apiVars>>

\* A call of load_model(): the lookup of the lru_cache wrapper (line 7).
\* The importer calls it at line 17; any other thread can reach the function
\* only once the import has completed.
LoadCall(c) ==
    /\ lpc[c] = "idle"
    /\ lcalls[c] < MaxCalls
    /\ IF c = Importer THEN proc = "L17" ELSE proc = "ready"
    /\ lcalls' = [lcalls EXCEPT ![c] = @ + 1]
    /\ IF cache # 0
       THEN /\ lret' = [lret EXCEPT ![c] = cache]
            /\ lpc' = [lpc EXCEPT ![c] = "returned"]
       ELSE /\ lpc' = [lpc EXCEPT ![c] = "L10"]
            /\ UNCHANGED lret
    /\ UNCHANGED <<proc, cache, constructed, model, lseen>>
    /\ UNCHANGED <<orchVars, fmtVars, apiVars>>

\* The body of load_model (lines 10-15) and the store of the wrapper.
LoadBody(c) ==
    /\ lpc[c] = "L10"
    /\ \E ok \in BOOLEAN :
         IF ok
         THEN /\ constructed' = constructed + 1
              /\ cache' = IF cache = 0 THEN constructed + 1 ELSE cache
              /\ lret' = [lret EXCEPT ![c] = constructed + 1]
              /\ lpc' = [lpc EXCEPT ![c] = "returned"]
         ELSE \* the constructor raises; an exception is not cached
              /\ lpc' = [lpc EXCEPT ![c] = "raised"]
              /\ UNCHANGED <<constructed, cache, lret>>
    /\ UNCHANGED <<proc, model, lseen, lcalls>>
    /\ UNCHANGED <<orchVars, fmtVars, apiVars>>

\* Line 17: model = load_model(); an exception ends the import.
ModuleAssign ==
    /\ proc = "L17"
    /\ lpc[Importer] \in {"returned", "raised"}
    /\ IF lpc[Importer] = "returned"
       THEN proc' = "ready" /\ model' = lret[Importer]
       ELSE proc' = "import_failed" /\ UNCHANGED model
    /\ UNCHANGED <<cache, constructed, lpc, lret, lseen, lcalls>>
    /\ UNCHANGED <<orchVars, fmtVars, apiVars>>

\* A thread is done with the instance load_model gave it.
LoadReturn(c) ==
    /\ c \in Threads
    /\ lpc[c] = "returned"
    /\ lpc' = [lpc EXCEPT ![c] = "idle"]
    /\ UNCHANGED <<proc, cache, constructed, model, lret, lseen, lcalls>>
    /\ UNCHANGED <<orchVars, fmtVars, apiVars>>

\* A thread reads the global `model`, as get_top_matches does (lines 28, 40).
ReadModel(c) ==
    /\ c \in Threads
    /\ proc = "ready"
    /\ lseen[c] = 0
    /\ lseen' = [lseen EXCEPT ![c] = model]
    /\ UNCHANGED <<proc, cache, constructed, model, lpc, lret, lcalls>>
    /\ UNCHANGED <<orchVars, fmtVars, apiVars>>

NextLoad ==
    \/ ExecModule
    \/ ModuleAssign
    \/ \E c \in Callers : LoadCall(c)
    \/ \E c \in Callers : LoadBody(c)
    \/ \E c \in Threads : LoadReturn(c)
    \/ \E c \in Threads : ReadModel(c)

InitL ==
    InitLoad /\ InitOrch /\ InitFmt /\ InitApi /\ requestsBound = FALSE

SpecLoad == InitL /\ [][NextLoad]_vars

(***************************************************************************)
(* The job source, as fetch_jobs_from_api sees it.                         *)
(***************************************************************************)

\* What one request to the job source ends in:
\*   "ok"      a 2xx response;
\*   "c4xx"    a client error (400, 401, 403, 404, 429 without Retry-After);
\*   "c429ra"  a 429 carrying a Retry-After header;
\*   "s503"    a status of status_forcelist (500, 502, 503, 504);
\*   "timeout" no response within timeout=15, or a connection error.
Responses == {"ok", "c4xx", "c429ra", "s503", "timeout"}

\* Postings the job source returns.
JobA ==
    [job_title |-> Str("Backend Engineer"), employer_name |-> Str("Acme"),
     job_city |-> Str("Lagos"), job_country |-> Str("NG"),
     job_description |-> Str("Python backend role"),
     job_apply_link |-> Str("https://jobs.example/1"),
     job_posted_at_datetime_utc |-> Str("2024-05-01T00:00:00.000Z")]

JobB == EmptyJob

JobC == [JobA EXCEPT !["job_description"] = PyNone,
                     !["job_title"] = PyNone]

JobPool == {JobA, JobB, JobC}

JobLists == UNION {[1..n -> JobPool] : n \in 0..MaxJobs}

\* The body of a 2xx response: JSON with a "data" list, JSON without the key,
\* JSON whose "data" is null, or something that is not JSON.
Bodies ==
    {[kind |-> "data", data |-> d] : d \in JobLists}
    \cup {[kind |-> k, data |-> <<>>] :
            k \in {"no_data_key", "data_null", "not_json"}}

(***************************************************************************)
(* fetch_jobs_from_api (matcher.py 70-98).                                 *)
(***************************************************************************)

\* A retry policy that retries every error status, client errors included.
RetryDecision_retryAll(r, n) ==
    IF r = "ok" THEN "response"
    ELSE IF RetryTotal - (n - 1) > 0 THEN "retry" ELSE "raise"

\* Retry(total=3, status_forcelist=[500, 502, 503, 504]) mounted on the
\* session (lines 76-81): what session.get does after the n-th request of a
\* call ended in r.  `total` counts the retries, not the requests: n - 1 of
\* them are spent when the n-th request is answered.
\*   - a forcelist status, a timeout or a connection error (GET is
\*     idempotent) is retried while a retry is left, and raises once none is;
\*   - a 429 that carries Retry-After is retried while a retry is left
\*     (respect_retry_after_header is on by default) and is handed back as
\*     the response once none is;
\*   - any other status is handed back as the response.
RetryDecision(r, n) ==
    LET left == RetryTotal - (n - 1)
    IN  IF r \in {"s503", "timeout"}
        THEN IF left > 0 THEN "retry" ELSE "raise"
        ELSE IF r = "c429ra" /\ left > 0 THEN "retry"
        ELSE "response"

\* Lines 93-94 on a response: raise_for_status(), then
\* response.json().get("data", [])[:num_results].
\* [exc, value]: the exception raised inside the try, or the value returned.
ParseResponse(r, body) ==
    IF r # "ok" THEN [exc |-> "HTTPError", value |-> <<>>]
    ELSE IF body.kind = "not_json"
         THEN [exc |-> "JSONDecodeError", value |-> <<>>]
    ELSE IF body.kind = "data_null"
         THEN [exc |-> "TypeError", value |-> <<>>]
    ELSE IF body.kind = "no_data_key"
         THEN [exc |-> "none", value |-> SliceTo(<<>>, NumResults)]
    ELSE [exc |-> "none", value |-> SliceTo(body.data, NumResults)]

\* Lines 96-98: except Exception: print, return [].
fetch_except(e) == <<>>

(***************************************************************************)
(* get_top_matches (matcher.py 19-55).                                     *)
(***************************************************************************)

\* A handler that lets the exception through.
get_top_matches_except_reraise(e) ==
    [outcome |-> "raised", result |-> <<>>]

\* Lines 53-55: except Exception: print, return [].
get_top_matches_except(e) ==
    [outcome |-> "returned", result |-> <<>>]

\* An exception e raised inside the try of lines 21-51.
Raise(e) ==
    /\ exc' = e
    /\ outcome' = get_top_matches_except(e).outcome
    /\ result' = get_top_matches_except(e).result
    /\ pc' = "done"

\* Line 39: the texts that are encoded.
JobText(j) == Get(j, "job_description", Str(""))

\* Similarities the encoder and pytorch_cos_sim can yield for a job list:
\* encoding is deterministic, so equal texts get equal similarities.
SimsFor(js) ==
    {s \in [1..Len(js) -> SimValues] :
        \A i, j \in 1..Len(js) : JobText(js[i]) = JobText(js[j]) => s[i] = s[j]}

Perms(n) ==
    {p \in [1..n -> 1..n] : \A i, j \in 1..n : i # j => p[i] # p[j]}

\* similarities.argsort(descending=True), line 49: the orders in which the
\* similarities descend.  The sort is not asked to be stable, so the order of
\* equal similarities is any.
argsort_descending(s) ==
    {p \in Perms(Len(s)) :
        \A i \in 1..(Len(s) - 1) : s[p[i]] >= s[p[i + 1]]}

\* A call of get_top_matches(resume_text, query, top_k) by the /predict
\* handler or any other caller; the module must have been imported.
Call ==
    /\ pc = "idle"
    /\ proc = "ready"
    /\ \E k \in 0..MaxTopK : top_k' = k
    /\ pc' = "L28"
    /\ UNCHANGED <<requestsBound, encodeCalls, fetchCalled, attempts, respLog,
                   fetchOutcome, jobs, sims, topIdx, exc, outcome, result>>
    /\ UNCHANGED <<loadVars, fmtVars, apiVars>>

\* Lines 28-33: resume_embedding = model.encode(resume_text, ...).
EncodeResume ==
    /\ pc = "L28"
    /\ encodeCalls' = encodeCalls + 1
    /\ \E fault \in BOOLEAN :
         IF fault
         THEN Raise("EncodeError")
         ELSE pc' = "L35" /\ UNCHANGED <<exc, outcome, result>>
    /\ UNCHANGED <<requestsBound, top_k, fetchCalled, attempts, respLog,
                   fetchOutcome, jobs, sims, topIdx>>
    /\ UNCHANGED <<loadVars, fmtVars, apiVars>>

\* Line 35 calls fetch_jobs_from_api; its lines 72-81 build the session.
\* requests.Session() of line 75 is outside the try of line 83: when the name
\* `requests` does not resolve, the NameError leaves fetch_jobs_from_api.
FetchSetup ==
    /\ pc = "L35"
    /\ fetchCalled' = TRUE
    /\ IF requestsBound
       THEN pc' = "L84" /\ UNCHANGED <<fetchOutcome, exc, outcome, result>>
       ELSE fetchOutcome' = "raised" /\ Raise("NameError")
    /\ UNCHANGED <<requestsBound, top_k, encodeCalls, attempts, respLog, jobs,
                   sims, topIdx>>
    /\ UNCHANGED <<loadVars, fmtVars, apiVars>>

\* Lines 84-98: one request of session.get, and what follows it: a retry,
\* or the end of fetch_jobs_from_api, which returns the postings or [].
FetchAttempt ==
    /\ pc = "L84"
    /\ \E r \in Responses, body \in Bodies :
         /\ attempts' = attempts + 1
         /\ respLog' = Append(respLog, r)
         /\ LET d == RetryDecision(r, attempts + 1)
                p == ParseResponse(r, body)
            IN  IF d = "retry"
                THEN UNCHANGED <<pc, fetchOutcome, jobs>>
                ELSE /\ pc' = "L36"
                     /\ fetchOutcome' = "returned"
                     /\ jobs' = IF d = "raise" THEN fetch_except("RetryError")
                                ELSE IF p.exc # "none" THEN fetch_except(p.exc)
                                ELSE p.value
    /\ UNCHANGED <<requestsBound, top_k, encodeCalls, fetchCalled, sims, topIdx,
                   exc, outcome, result>>
    /\ UNCHANGED <<loadVars, fmtVars, apiVars>>

\* Lines 36-37: if not jobs: return [].
CheckJobs ==
    /\ pc = "L36"
    /\ IF jobs = <<>>
       THEN /\ pc' = "done"
            /\ outcome' = "returned"
            /\ result' = <<>>
       ELSE /\ pc' = "L40"
            /\ UNCHANGED <<outcome, result>>
    /\ UNCHANGED <<requestsBound, top_k, encodeCalls, fetchCalled, attempts,
                   respLog, fetchOutcome, jobs, sims, topIdx, exc>>
    /\ UNCHANGED <<loadVars, fmtVars, apiVars>>

\* Lines 39-45: job_embeddings = model.encode(job_texts, ...).
EncodeJobs ==
    /\ pc = "L40"
    /\ encodeCalls' = encodeCalls + 1
    /\ \E fault \in BOOLEAN :
         IF fault
         THEN Raise("EncodeError")
         ELSE pc' = "L48" /\ UNCHANGED <<exc, outcome, result>>
    /\ UNCHANGED <<requestsBound, top_k, fetchCalled, attempts, respLog,
                   fetchOutcome, jobs, sims, topIdx>>
    /\ UNCHANGED <<loadVars, fmtVars, apiVars>>

\* Lines 48-49: the similarities and top_indices = argsort(...)[:top_k].
Rank ==
    /\ pc = "L48"
    /\ \E fault \in BOOLEAN :
         IF fault
         THEN Raise("RuntimeError") /\ UNCHANGED <<sims, topIdx>>
         ELSE /\ \E s \in SimsFor(jobs) :
                   /\ sims' = s
                   /\ \E p \in argsort_descending(s) :
                        topIdx' = SliceTo(p, top_k)
              /\ pc' = "L51"
              /\ UNCHANGED <<exc, outcome, result>>
    /\ UNCHANGED <<requestsBound, top_k, encodeCalls, fetchCalled, attempts,
                   respLog, fetchOutcome, jobs>>
    /\ UNCHANGED <<loadVars, fmtVars, apiVars>>

\* Line 51: return [format_job(jobs[i], similarities[i]) for i in top_indices].
Format ==
    /\ pc = "L51"
    /\ LET out == [i \in 1..Len(topIdx) |->
                      format_job(jobs[topIdx[i]], sims[topIdx[i]])]
       IN  IF \E i \in 1..Len(topIdx) : out[i].exc # "none"
           THEN Raise("TypeError")
           ELSE /\ result' = [i \in 1..Len(topIdx) |-> out[i].val]
                /\ outcome' = "returned"
                /\ pc' = "done"
                /\ UNCHANGED exc
    /\ UNCHANGED <<requestsBound, top_k, encodeCalls, fetchCalled, attempts,
                   respLog, fetchOutcome, jobs, sims, topIdx>>
    /\ UNCHANGED <<loadVars, fmtVars, apiVars>>

\* matcher.py binds no global name `requests`: lines 1-4 import os,
\* SentenceTransformer, util, lru_cache and torch, and lines 72-73 bind only
\* HTTPAdapter and Retry, locally.  requestsBound = FALSE is the module as it
\* is written, where line 75 raises NameError on every call.  The name is
\* looked up in the module's namespace when line 75 runs, so it resolves only
\* in a process that has put it there; requestsBound = TRUE is that process,
\* and the only one in which lines 84-94 and 39-51 run at all.
Init ==
    /\ InitLoad /\ InitOrch /\ InitFmt /\ InitApi
    /\ requestsBound \in BOOLEAN

Next ==
    \/ ExecModule
    \/ LoadCall(Importer)
    \/ LoadBody(Importer)
    \/ ModuleAssign
    \/ Call
    \/ EncodeResume
    \/ FetchSetup
    \/ FetchAttempt
    \/ CheckJobs
    \/ EncodeJobs
    \/ Rank
    \/ Format

Spec == Init /\ [][Next]_vars

(***************************************************************************)
(* format_job called on its own, on any job record.                        *)
(***************************************************************************)
FormatCall ==
    /\ fmtOut = NotRun
    /\ fmtOut' = format_job(fmtJob, fmtSim)
    /\ UNCHANGED <<fmtJob, fmtSim>>
    /\ UNCHANGED <<loadVars, orchVars, apiVars>>

InitF ==
    /\ InitLoad /\ InitOrch /\ InitApi
    /\ requestsBound = FALSE
    /\ fmtJob \in AllJobs
    /\ fmtSim \in SimValues
    /\ fmtOut = NotRun

NextF == FormatCall

SpecFormat == InitF /\ [][NextF]_vars

(***************************************************************************)
(* Properties.                                                             *)
(***************************************************************************)

\* C1: once the module is imported, get_top_matches never raises: it ends by
\* returning a list, the empty one whenever an exception was raised in its
\* body (job source, encoding, ranking or formatting).  Only a failure of
\* load_model at import ends abnormally: it fails the import, and nothing
\* else does.
C1_TotalFunction ==
    /\ outcome # "raised"
    /\ pc = "done" => outcome = "returned"
    /\ exc # "none" => pc = "done" /\ result = <<>>
    /\ proc = "import_failed" <=> (lpc[Importer] = "raised" /\ proc # "L17")
    /\ lpc[Importer] = "raised" => model = 0 /\ pc = "idle"

\* C1 witness: a formatting fault was raised after a successful fetch, and
\* the call returned the empty list.
C1_Witness ==
    /\ pc = "done"
    /\ exc = "TypeError"
    /\ jobs # <<>>
    /\ outcome = "returned"
    /\ result = <<>>

\* C2: a call that returns gives at most min(top_k, fetched) results; with
\* top_k = 0 none; and when no exception was raised and no more than top_k
\* postings were fetched, one result for each of them.
C2_AtMostTopK ==
    pc = "done" /\ outcome = "returned" =>
        /\ Len(result) <= Min(top_k, Len(jobs))
        /\ top_k = 0 => result = <<>>
        /\ exc = "none" /\ Len(jobs) <= top_k =>
              /\ Len(result) = Len(jobs)
              /\ {topIdx[i] : i \in 1..Len(topIdx)} = 1..Len(jobs)

\* C2 witness: fewer postings than top_k were fetched and all are returned.
C2_Witness ==
    /\ pc = "done"
    /\ exc = "none"
    /\ top_k = MaxTopK
    /\ Len(jobs) > 0 /\ Len(jobs) < top_k
    /\ Len(result) = Len(jobs)

\* C3 (as claimed): no model.encode call is made before fetch_jobs_from_api
\* has been called, and a call whose fetch returned no posting ends without
\* any model.encode call.
C3_FetchBeforeEncode ==
    /\ encodeCalls > 0 => fetchCalled
    /\ pc = "done" /\ fetchOutcome = "returned" /\ jobs = <<>> =>
          encodeCalls = 0

C5_FetchNeverRaises ==
    /\ fetchOutcome # "raised"
    /\ exc # "NameError"
    /\ (fetchOutcome = "returned" /\ respLog[Len(respLog)] # "ok") =>
          jobs = <<>>

C9_SingleConstruction ==
    /\ constructed <= 1
    /\ \A c \in Callers : lret[c] # 0 => lret[c] = cache
    /\ \A t \in Threads : lseen[t] # 0 => lseen[t] = cache
    /\ model \in {0, cache}
    /\ proc = "ready" => model # 0

\* C9 witness: two threads have called load_model at the same time and both
\* hold the instance the import constructed.
C9_Witness ==
    /\ constructed = 1
    /\ \E a, b \in Threads :
          /\ a # b
          /\ lpc[a] = "returned" /\ lpc[b] = "returned"
          /\ lret[a] = cache /\ lret[b] = cache /\ cache = model

Missing(v) == v = Absent \/ v = PyNone

\* C10 (as claimed): format_job completes on every job record, whatever
\* fields are absent or null, and every absent or null field resolves to its
\* default.
C10_Defaults ==
    fmtOut.exc # "notrun" =>
        /\ fmtOut.exc = "none"
        /\ Missing(fmtJob.job_title) => fmtOut.val.title = Str("No title")
        /\ Missing(fmtJob.employer_name) => fmtOut.val.company = Str("Unknown")
        /\ Missing(fmtJob.job_apply_link) =>
              fmtOut.val.apply_link = Str("No link")
        /\ Missing(fmtJob.job_posted_at_datetime_utc) =>
              fmtOut.val.posted_at = Str("Unknown")
        /\ Missing(fmtJob.job_description) => fmtOut.val.description = Str("")
        /\ Missing(fmtJob.job_city) /\ Missing(fmtJob.job_country) =>
              fmtOut.val.location = Str("")

\* The text format_job is given as the description: the value of the key,
\* the empty text when the key is missing.
RawDescription == Get(fmtJob, "job_description", Str("")).s

\* C11: when format_job returns, the description it returns is the raw
\* description unchanged if that has 300 characters or fewer (the empty one
\* included), and otherwise its first 300 characters followed by "...".
C11_Truncation ==
    fmtOut.exc = "none" =>
        IF Len(RawDescription) > 300
        THEN /\ Len(fmtOut.val.description.s) = 303
             /\ SubSeq(fmtOut.val.description.s, 1, 300)
                  = SubSeq(RawDescription, 1, 300)
             /\ SubSeq(fmtOut.val.description.s, 301, 303) = "..."
        ELSE fmtOut.val.description = Str(RawDescription)

\* C11 witness: a description of more than 300 characters whose 300th and
\* 301st characters differ was cut after the 300th.
C11_Witness ==
    /\ fmtOut.exc = "none"
    /\ Len(RawDescription) > 300
    /\ SubSeq(RawDescription, 300, 300) # SubSeq(RawDescription, 301, 301)
    /\ fmtOut.val.description.s = SubSeq(RawDescription, 1, 300) \o "..."

(***************************************************************************)
(* src/api/app.py: the asynchronous job store.  job_status is a dict of    *)
(* the process; its keys are the ids of the entries held, and of an entry  *)
(* the model keeps the status and created_at (progress, result and error   *)
(* are written along with the status and read by no code of the process).  *)
(* The request handlers are coroutines without an await between their      *)
(* statements, so the event loop runs each of them whole; a background     *)
(* task is a plain function, which Starlette runs in a worker thread after *)
(* the response of its submission, concurrently with later requests.       *)
(***************************************************************************)
Entry(status, created_at) == [status |-> status, created_at |-> created_at]

\* d[k] = v of a Python dict: the key is added when it is not there.
DictSet(d, k, v) == [x \in DOMAIN d \cup {k} |-> IF x = k THEN v ELSE d[x]]

\* Lines 34-41: every entry created more than an hour before now is deleted,
\* whatever its status.
cleanup_old_jobs(d, t) ==
    LET cutoff_time == t - CleanupHours
        expired_jobs == {k \in DOMAIN d : d[k].created_at < cutoff_time}
    IN  [k \in DOMAIN d \ expired_jobs |-> d[k]]

\* Lines 147-182, a submission that passes the checks of lines 154-159: a
\* fresh id gets a queued entry, its task is added, the old entries are
\* cleaned up and the response is sent, after which the task may start.
match_jobs_async(j) ==
    /\ tpc[j] = "unborn"
    /\ \A k \in JobIds : k < j => tpc[k] # "unborn"
    /\ job_status' = cleanup_old_jobs(
                        DictSet(job_status, j, Entry("queued", now)), now)
    /\ tpc' = [tpc EXCEPT ![j] = "pending"]
    /\ trail' = [trail EXCEPT ![j] = <<"queued">>]
    /\ UNCHANGED <<now, mlUrlSet, lastPoll>>
    /\ UNCHANGED <<loadVars, orchVars, fmtVars>>

\* A status write of the task of job j, from inside the try of line 98.
\* With the entry gone job_status[job_id] raises KeyError; the handler of
\* line 141 catches it and raises KeyError again at line 142, outside any
\* try: the task ends with the exception.
TaskWrite(j, status, next) ==
    IF j \in DOMAIN job_status
    THEN /\ job_status' = [job_status EXCEPT ![j].status = status]
         /\ trail' = [trail EXCEPT ![j] = Append(@, status)]
         /\ tpc' = [tpc EXCEPT ![j] = next]
    ELSE /\ tpc' = [tpc EXCEPT ![j] = "crashed"]
         /\ UNCHANGED <<job_status, trail>>

\* Lines 99-100.
TaskStart(j) ==
    /\ tpc[j] = "pending"
    /\ TaskWrite(j, "processing", "L103")
    /\ UNCHANGED <<now, mlUrlSet, lastPoll>>
    /\ UNCHANGED <<loadVars, orchVars, fmtVars>>

\* Lines 103-110: without RENDER_ML_URL the entry is replaced by an error
\* entry that keeps created_at (read from the entry, line 108).
TaskCheckUrl(j) ==
    /\ tpc[j] = "L103"
    /\ IF mlUrlSet
       THEN /\ tpc' = [tpc EXCEPT ![j] = "L112"]
            /\ UNCHANGED <<job_status, trail>>
       ELSE TaskWrite(j, "error", "done")
    /\ UNCHANGED <<now, mlUrlSet, lastPoll>>
    /\ UNCHANGED <<loadVars, orchVars, fmtVars>>

\* What requests.post, raise_for_status and json of lines 112-123 come to.
PostOutcomes == {"ok", "Timeout", "RequestException", "Exception"}

\* Lines 112-145: the call of the ML service returns or raises, and the
\* result or the error is written to the entry.
TaskPost(j) ==
    /\ tpc[j] = "L112"
    /\ \E r \in PostOutcomes :
          TaskWrite(j, IF r = "ok" THEN "completed" ELSE "error", "done")
    /\ UNCHANGED <<now, mlUrlSet, lastPoll>>
    /\ UNCHANGED <<loadVars, orchVars, fmtVars>>

\* Lines 184-190, for the id of a job that was submitted.
get_job_status(j) ==
    /\ tpc[j] # "unborn"
    /\ lastPoll' = IF j \in DOMAIN job_status
                   THEN job_status[j].status ELSE "404"
    /\ UNCHANGED <<job_status, now, mlUrlSet, tpc, trail>>
    /\ UNCHANGED <<loadVars, orchVars, fmtVars>>

\* An hour passes on the clock datetime.now() reads.
Tick ==
    /\ now < MaxTime
    /\ now' = now + 1
    /\ UNCHANGED <<job_status, mlUrlSet, tpc, trail, lastPoll>>
    /\ UNCHANGED <<loadVars, orchVars, fmtVars>>

InitJ ==
    /\ InitLoad /\ InitOrch /\ InitFmt
    /\ requestsBound = FALSE
    /\ job_status = <<>>
    /\ now = 0
    /\ mlUrlSet \in BOOLEAN
    /\ tpc = [j \in JobIds |-> "unborn"]
    /\ trail = [j \in JobIds |-> <<>>]
    /\ lastPoll = "none"

NextJ ==
    \/ \E j \in JobIds : match_jobs_async(j)
    \/ \E j \in JobIds : TaskStart(j)
    \/ \E j \in JobIds : TaskCheckUrl(j)
    \/ \E j \in JobIds : TaskPost(j)
    \/ \E j \in JobIds : get_job_status(j)
    \/ Tick

SpecJobs == InitJ /\ [][NextJ]_vars

Unfinished == {"pending", "L103", "L112"}

StatusPaths ==
    {<<"queued", "processing", "completed">>,
     <<"queued", "processing", "error">>}

\* C12: under every interleaving of submissions, background tasks and
\* cleanups, the entry of a job whose task has not reached completed or
\* error is in job_status, no status write of a task found its entry gone,
\* and the statuses written to an entry are a prefix of queued, processing,
\* completed or of queued, processing, error.
C12_EntryKeptUntilFinished ==
    \A j \in JobIds :
        /\ tpc[j] \in Unfinished => j \in DOMAIN job_status
        /\ tpc[j] # "crashed"
        /\ \E p \in StatusPaths :
              /\ Len(trail[j]) <= Len(p)
              /\ trail[j] = SubSeq(p, 1, Len(trail[j]))

====
